---- MODULE Spec2Model ----
(***************************************************************************)
(* API key plugin: the APIKey model (models.py) and the APIKeyManager      *)
(* operations (apiKeyManager.py) as a state machine over the api_keys      *)
(* table.  Every ORM call is one autocommit SQL statement, and requests    *)
(* are served by concurrent workers, so a handler that issues two          *)
(* statements (get + save, get + delete) is two steps that other requests  *)
(* may interleave with.                                                    *)
(*                                                                         *)
(* Every handler is an operator from the table (and the instance it holds) *)
(* to the table and the response it leaves; the actions apply them.  A     *)
(* response is the dict handed to json.dumps.  Text values are sequences   *)
(* of one-character strings.                                               *)
(***************************************************************************)
EXTENDS Integers, Sequences, FiniteSets, TLC

(* ------------------------------ bounds --------------------------------- *)
\* rows the AUTO_INCREMENT id may hand out
MaxKeys == 2
\* distinct readings of timezone.now(), the wall clock
MaxClock == 1
\* requests served at the same time
NumWorkers == 2

(* ---------------------------- program constants ------------------------ *)
\* get_prefix: raw_key[:12]
PrefixLen == 12
\* generate_key: secrets.token_urlsafe(32)
TokenBytes == 32
\* hash_key: width of the digest the model computes, in bits
HashBits == 16

\* NULL: no last_used yet, no keyID in the payload
Null == 0

Admins == {"A", "B"}
Workers == 1..NumWorkers
\* data.get('keyID'): an id the table may have handed out, or none (Null)
KeyIDs == {Null} \cup 1..MaxKeys
Times == 1..MaxClock

cp_ == <<"c", "p", "_">>
Ellipsis == <<".", ".", ".">>
UnnamedKey == <<"U", "n", "n", "a", "m", "e", "d", " ", "K", "e", "y">>
CIToken == <<"C", "I", " ", "T", "o", "k", "e", "n">>
\* data.get('name', 'Unnamed Key'): the payload's name, or Absent
Absent == <<>>
NameInputs == {Absent, CIToken}
PasteHint == <<" ", "(", "p", "a", "s", "t", "e", " ", "y", "o", "u", "r",
             " ", "s", "a", "v", "e", "d", " ", "k", "e", "y", ")">>
DefaultHost == <<"h", "t", "t", "p", "s", ":", "/", "/", "y", "o", "u", "r",
               "-", "s", "e", "r", "v", "e", "r", ".", "c", "o", "m", ":",
               "8", "0", "9", "0">>
PanelHost == <<"h", "t", "t", "p", "s", ":", "/", "/", "p", "a", "n", "e",
             "l", ":", "8", "0", "9", "0">>
HostInputs == {Absent, PanelHost}

(* ------------------------------ text ----------------------------------- *)
Take(s, n) == SubSeq(s, 1, IF Len(s) < n THEN Len(s) ELSE n)

startswith(s, p) == Len(s) >= Len(p) /\ SubSeq(s, 1, Len(p)) = p

\* s occurs in t as a contiguous run
Contains(t, s) ==
  \E i \in 0..(Len(t) - Len(s)) : SubSeq(t, i + 1, i + Len(s)) = s

(* --------------------------- APIKey statics ---------------------------- *)
\* token_urlsafe(32): 32 random bytes, base64url without padding
TokenLen == (4 * TokenBytes + 2) \div 3

\* what the entropy source can deliver here: tokens that differ in their
\* first or in their last character only
Token(first, last) ==
  [i \in 1..TokenLen |-> IF i = 1 THEN first ELSE IF i = TokenLen THEN last ELSE "A"]
Tokens == {Token("x", "x"), Token("x", "y")}

generate_key(token) == cp_ \o token

Alphabet == <<"c", "p", "_", "A", "x", "y">>
Code(c) == CHOOSE i \in 1..Len(Alphabet) : Alphabet[i] = c

HexDigits == <<"0", "1", "2", "3", "4", "5", "6", "7",
               "8", "9", "a", "b", "c", "d", "e", "f">>
HashMod == 2 ^ HashBits
HexLen == HashBits \div 4

RECURSIVE compress(_, _)
compress(s, h) ==
  IF s = <<>> THEN h
  ELSE compress(Tail(s), (h * 31 + Code(Head(s))) % HashMod)

hexdigest(n) ==
  [i \in 1..HexLen |-> HexDigits[((n \div (16 ^ (HexLen - i))) % 16) + 1]]

\* a display prefix that keeps the whole key
get_prefix_whole(raw_key) == raw_key

get_prefix(raw_key) == IF Len(raw_key) >= PrefixLen THEN Take(raw_key, PrefixLen) ELSE raw_key

\* every raw key generate_key can return
Secrets == {generate_key(t) : t \in Tokens}
\* what a client may present to validateKey: a raw key, nothing, a token
\* without the cp_ marker, the 12-character prefix of a raw key
Presented == Secrets \cup {<<>>, Token("x", "x"), get_prefix(generate_key(Token("x", "x")))}

\* hashlib.sha256(...).hexdigest() of every text the model hashes: a
\* deterministic, lossy, fixed-width digest, rendered in hex
sha256 == [s \in Presented |-> hexdigest(compress(s, 7))]

hash_key(raw_key) == sha256[raw_key]

(* ------------------------------ state ---------------------------------- *)
VARIABLES
  table,       \* api_keys: id -> row, for the ids that have a row
  nextId,      \* the table's AUTO_INCREMENT counter
  pc,          \* per worker: the handler it is in the middle of, or "idle"
  self_admin,  \* per worker: that APIKeyManager's self.admin
  inst,        \* per worker: the model instance that handler holds
  issued,      \* id -> the raw key the createKey response carried
  deleted      \* ids for which deleteKey has answered status 1

vars == <<table, nextId, pc, self_admin, inst, issued, deleted>>

NoInst == [id |-> Null]
\* validateKey is a staticmethod: no manager, no self.admin
NoAdmin == "-"

\* a model instance: the row and its primary key
Instance(t, id) == [id |-> id] @@ t[id]

\* the columns an instance is written to
Row(i) == [admin |-> i.admin, key_hash |-> i.key_hash, key_prefix |-> i.key_prefix,
           name |-> i.name, created_at |-> i.created_at, last_used |-> i.last_used,
           is_active |-> i.is_active]

Init ==
  /\ table = <<>>
  /\ nextId = 1
  /\ pc = [w \in Workers |-> "idle"]
  /\ self_admin = [w \in Workers |-> NoAdmin]
  /\ inst = [w \in Workers |-> NoInst]
  /\ issued = <<>>
  /\ deleted = {}

(* ------------------------------ the ORM -------------------------------- *)
\* a get by id alone, the admin filter forgotten
objects_get_anyAdmin(t, key_id, admin) == {i \in DOMAIN t : i = key_id}

\* APIKey.objects.get(id=key_id, admin=self.admin): the ids it matches
objects_get(t, key_id, admin) ==
  {i \in DOMAIN t : i = key_id /\ t[i].admin = admin}

\* APIKey.objects.all(), the admin filter forgotten
objects_filter_all(t, admin) == DOMAIN t

\* APIKey.objects.filter(admin=self.admin)
objects_filter(t, admin) == {i \in DOMAIN t : t[i].admin = admin}

\* a lookup by hash alone, the is_active filter forgotten
validate_lookup_anyState(t, raw_key) ==
  {i \in DOMAIN t : t[i].key_hash = hash_key(raw_key)}

\* cls.objects.get(key_hash=key_hash, is_active=True): the ids it matches
validate_lookup(t, raw_key) ==
  {i \in DOMAIN t : t[i].key_hash = hash_key(raw_key) /\ t[i].is_active}

\* the UNIQUE index on key_hash admits a row with this hash
unique_ok(t, key_hash) == \A i \in DOMAIN t : t[i].key_hash # key_hash

\* Model.save(): UPDATE every column WHERE id = pk; when that matches no row,
\* INSERT the instance under its id (created_at is auto_now_add: set on INSERT)
save(t, api_key, time) ==
  IF api_key.id \in DOMAIN t
  THEN [ok |-> TRUE, table |-> [t EXCEPT ![api_key.id] = Row(api_key)]]
  ELSE IF unique_ok(t, api_key.key_hash)
  THEN [ok |-> TRUE,
        table |-> t @@ (api_key.id :> [Row(api_key) EXCEPT !.created_at = time])]
  ELSE [ok |-> FALSE, table |-> t]

\* Model.save(update_fields=['last_used']): UPDATE last_used WHERE id = pk;
\* DatabaseError when that matches no row
save_last_used(t, api_key) ==
  IF api_key.id \in DOMAIN t
  THEN [ok |-> TRUE, table |-> [t EXCEPT ![api_key.id].last_used = api_key.last_used]]
  ELSE [ok |-> FALSE, table |-> t]

\* Model.delete(): DELETE WHERE id = pk
delete(t, id) == [i \in DOMAIN t \ {id} |-> t[i]]

(* ------------------------------ APIKey --------------------------------- *)
\* a create_key that hashes the display prefix instead of the raw key
create_key_hashPrefix(id, admin, name, raw_key, time) ==
  [id |-> id, admin |-> admin, key_hash |-> hash_key(get_prefix(raw_key)),
   key_prefix |-> get_prefix(raw_key), name |-> name, created_at |-> time,
   last_used |-> Null, is_active |-> TRUE]

\* create_key: the instance cls.objects.create(...) builds from the raw key
create_key(id, admin, name, raw_key, time) ==
  [id |-> id, admin |-> admin, key_hash |-> hash_key(raw_key),
   key_prefix |-> get_prefix(raw_key), name |-> name, created_at |-> time,
   last_used |-> Null, is_active |-> TRUE]

\* update_last_used: self.last_used = timezone.now()
update_last_used(api_key, time) == [api_key EXCEPT !.last_used = time]

\* datetime.isoformat()
isoformat(time) == <<"T", time>>

\* validate_key's fast path: not raw_key or not raw_key.startswith('cp_')
rejected(raw_key) == raw_key = <<>> \/ ~startswith(raw_key, cp_)

NoMatch == [result |-> "none"]

\* validate_key up to the SELECT: None, or the instance it loaded
validate_key_get(t, raw_key) ==
  IF rejected(raw_key) \/ validate_lookup(t, raw_key) = {}
  THEN [found |-> FALSE, resp |-> NoMatch]
  ELSE [found |-> TRUE,
        api_key |-> Instance(t, CHOOSE i \in validate_lookup(t, raw_key) : TRUE)]

\* validate_key from api_key.update_last_used() on: the instance it returns,
\* or the DatabaseError that leaves it (only DoesNotExist is caught)
validate_key_touch(t, loaded, time) ==
  LET api_key == update_last_used(loaded, time)
      r == save_last_used(t, api_key)
  IN [table |-> r.table,
      resp |-> IF r.ok THEN [result |-> "match", api_key |-> api_key]
               ELSE [result |-> "raise", error |-> "DatabaseError"]]

(* --------------------------- APIKeyManager ----------------------------- *)
ajaxPre(status, errorMessage) == [status |-> status, error_message |-> errorMessage]

NotFound == ajaxPre(0, "API key not found")

\* secrets.token_urlsafe raising instead of returning a token
EntropyFailure == <<"!">>

\* a createKey that inserts the row and then fails while building its response
createKey_lateFailure(t, id, admin, data_name, token, time) ==
  IF token = EntropyFailure
  THEN [table |-> t, resp |-> ajaxPre(0, "entropy source unavailable")]
  ELSE
    LET name == IF data_name = Absent THEN UnnamedKey ELSE data_name
        raw_key == generate_key(token)
        api_key == create_key(id, admin, name, raw_key, time)
    IN IF ~unique_ok(t, api_key.key_hash)
       THEN [table |-> t, resp |-> ajaxPre(0, "IntegrityError: duplicate key_hash")]
       ELSE IF data_name = Absent
       THEN [table |-> t @@ (id :> Row(api_key)), resp |-> ajaxPre(0, "KeyError: 'name'")]
       ELSE [table |-> t @@ (id :> Row(api_key)),
             resp |-> [status |-> 1, key |-> raw_key, id |-> api_key.id,
                       name |-> api_key.name, key_prefix |-> api_key.key_prefix,
                       created_at |-> isoformat(api_key.created_at),
                       warning |-> "Save this key now! It cannot be shown again."]]

\* createKey: the table and the response it leaves
createKey(t, id, admin, data_name, token, time) ==
  IF token = EntropyFailure
  THEN [table |-> t, resp |-> ajaxPre(0, "entropy source unavailable")]
  ELSE
    LET name == IF data_name = Absent THEN UnnamedKey ELSE data_name
        raw_key == generate_key(token)
        api_key == create_key(id, admin, name, raw_key, time)
    IN IF ~unique_ok(t, api_key.key_hash)
       THEN [table |-> t, resp |-> ajaxPre(0, "IntegrityError: duplicate key_hash")]
       ELSE [table |-> t @@ (id :> Row(api_key)),
             resp |-> [status |-> 1, key |-> raw_key, id |-> api_key.id,
                       name |-> api_key.name, key_prefix |-> api_key.key_prefix,
                       created_at |-> isoformat(api_key.created_at),
                       warning |-> "Save this key now! It cannot be shown again."]]

\* one entry of listKeys' key_list
summary(t, id) ==
  [id |-> id, name |-> t[id].name, key_preview |-> t[id].key_prefix \o Ellipsis,
   created_at |-> isoformat(t[id].created_at),
   last_used |-> IF t[id].last_used # Null THEN isoformat(t[id].last_used) ELSE <<>>,
   is_active |-> t[id].is_active]

\* Meta.ordering = ['-created_at']: the orders the query may return ids in
Orderings(t, ids) ==
  {s \in [1..Cardinality(ids) -> ids] :
     /\ \A i, j \in DOMAIN s : i # j => s[i] # s[j]
     /\ \A i, j \in DOMAIN s : i < j => t[s[i]].created_at >= t[s[j]].created_at}

\* listKeys, the query having returned the admin's rows in this order
listKeys(t, order) ==
  [status |-> 1, keys |-> [i \in DOMAIN order |-> summary(t, order[i])]]

\* a revoke that only ever deactivates
toggled_off(api_key) == [api_key EXCEPT !.is_active = FALSE]

\* api_key.is_active = not api_key.is_active
toggled(api_key) == [api_key EXCEPT !.is_active = ~@]

\* revokeKey up to the SELECT: 'API key not found', or the instance it loaded
revokeKey_get(t, admin, key_id) ==
  IF objects_get(t, key_id, admin) = {}
  THEN [found |-> FALSE, resp |-> NotFound]
  ELSE [found |-> TRUE, api_key |-> Instance(t, key_id)]

\* revokeKey from the flip on: api_key.save() and the response
revokeKey_save(t, loaded, time) ==
  LET api_key == toggled(loaded)
      r == save(t, api_key, time)
  IN [table |-> r.table,
      resp |-> IF r.ok THEN [status |-> 1, is_active |-> api_key.is_active]
               ELSE ajaxPre(0, "IntegrityError: duplicate key_hash")]

\* deleteKey up to the SELECT; of the instance it loads, .delete() reads the
\* primary key alone, so the columns that can go stale are left out of it
deleteKey_get(t, admin, key_id) ==
  IF objects_get(t, key_id, admin) = {}
  THEN [found |-> FALSE, resp |-> NotFound]
  ELSE [found |-> TRUE, api_key |-> [id |-> key_id, admin |-> t[key_id].admin]]

\* deleteKey from .delete() on
deleteKey_delete(t, loaded) ==
  [table |-> delete(t, loaded.id), resp |-> [status |-> 1]]

\* the env block both configurations embed
config_env(host, api_key) ==
  [CYBERPANEL_HOST |-> host,
   CYBERPANEL_API_KEY |-> api_key.key_prefix \o Ellipsis \o PasteHint]

getMCPConfig(t, admin, key_id, data_host) ==
  IF objects_get(t, key_id, admin) = {} THEN NotFound
  ELSE
    LET host == IF data_host = Absent THEN DefaultHost ELSE data_host
        api_key == Instance(t, key_id)
    IN [status |-> 1,
        vscode_config |-> [type |-> "stdio", command |-> "node",
                           env |-> config_env(host, api_key)],
        claude_config |-> [command |-> "node", env |-> config_env(host, api_key)],
        note |-> "Paste your saved API key in place of the placeholder"]

\* validateKey: the admin of the key validate_key returned, or None
None == "None"
validateKey(resp) == IF resp.result = "match" THEN resp.api_key.admin ELSE None

(* ------------------------------ actions -------------------------------- *)
\* a request is taken by the first worker that is free
Idle(w) == pc[w] = "idle" /\ \A v \in Workers : v < w => pc[v] # "idle"

\* views.createKey -> APIKeyManager.createKey: one INSERT
CreateKey ==
  \E w \in Workers, admin \in Admins, data_name \in NameInputs,
     token \in Tokens \cup {EntropyFailure}, now \in Times :
    /\ Idle(w)
    /\ nextId <= MaxKeys
    /\ LET r == createKey(table, nextId, admin, data_name, token, now)
       IN /\ table' = r.table
          /\ nextId' = IF r.resp.status = 1 THEN nextId + 1 ELSE nextId
          /\ issued' = IF r.resp.status = 1
                       THEN issued @@ (r.resp.id :> r.resp.key) ELSE issued
    /\ UNCHANGED <<pc, self_admin, inst, deleted>>

\* views.listKeys -> APIKeyManager.listKeys: one SELECT, nothing written
ListKeys ==
  \E w \in Workers, admin \in Admins :
    /\ Idle(w)
    /\ \E order \in Orderings(table, objects_filter(table, admin)) :
         listKeys(table, order).status = 1
    /\ UNCHANGED vars

\* revokeKey, first statement: APIKey.objects.get(id=key_id, admin=self.admin)
RevokeGet ==
  \E w \in Workers, admin \in Admins, key_id \in KeyIDs :
    /\ Idle(w)
    /\ LET g == revokeKey_get(table, admin, key_id)
       IN IF g.found
          THEN /\ pc' = [pc EXCEPT ![w] = "revokeKey"]
               /\ self_admin' = [self_admin EXCEPT ![w] = admin]
               /\ inst' = [inst EXCEPT ![w] = g.api_key]
          ELSE UNCHANGED <<pc, self_admin, inst>>
    /\ UNCHANGED <<table, nextId, issued, deleted>>

\* revokeKey, second statement: flip is_active in memory, api_key.save()
RevokeSave ==
  \E w \in Workers, now \in Times :
    /\ pc[w] = "revokeKey"
    /\ table' = revokeKey_save(table, inst[w], now).table
    /\ pc' = [pc EXCEPT ![w] = "idle"]
    /\ self_admin' = [self_admin EXCEPT ![w] = NoAdmin]
    /\ inst' = [inst EXCEPT ![w] = NoInst]
    /\ UNCHANGED <<nextId, issued, deleted>>

\* deleteKey, first statement: APIKey.objects.get(id=key_id, admin=self.admin)
DeleteGet ==
  \E w \in Workers, admin \in Admins, key_id \in KeyIDs :
    /\ Idle(w)
    /\ LET g == deleteKey_get(table, admin, key_id)
       IN IF g.found
          THEN /\ pc' = [pc EXCEPT ![w] = "deleteKey"]
               /\ self_admin' = [self_admin EXCEPT ![w] = admin]
               /\ inst' = [inst EXCEPT ![w] = g.api_key]
          ELSE UNCHANGED <<pc, self_admin, inst>>
    /\ UNCHANGED <<table, nextId, issued, deleted>>

\* deleteKey, second statement: .delete(), then status 1
DeleteDel ==
  \E w \in Workers :
    /\ pc[w] = "deleteKey"
    /\ table' = deleteKey_delete(table, inst[w]).table
    /\ deleted' = deleted \cup {inst[w].id}
    /\ pc' = [pc EXCEPT ![w] = "idle"]
    /\ self_admin' = [self_admin EXCEPT ![w] = NoAdmin]
    /\ inst' = [inst EXCEPT ![w] = NoInst]
    /\ UNCHANGED <<nextId, issued>>

\* views.getMCPConfig -> APIKeyManager.getMCPConfig: one SELECT, nothing written
GetMCPConfig ==
  \E w \in Workers, admin \in Admins, key_id \in KeyIDs, data_host \in HostInputs :
    /\ Idle(w)
    /\ getMCPConfig(table, admin, key_id, data_host).status \in {0, 1}
    /\ UNCHANGED vars

\* validateKey -> validate_key, up to the SELECT
ValidateGet ==
  \E w \in Workers, raw_key \in Presented :
    /\ Idle(w)
    /\ LET g == validate_key_get(table, raw_key)
       IN IF g.found
          THEN /\ pc' = [pc EXCEPT ![w] = "validateKey"]
               /\ inst' = [inst EXCEPT ![w] = g.api_key]
          ELSE UNCHANGED <<pc, inst>>
    /\ UNCHANGED self_admin
    /\ UNCHANGED <<table, nextId, issued, deleted>>

\* validate_key, api_key.update_last_used() and the return
ValidateTouch ==
  \E w \in Workers, now \in Times :
    /\ pc[w] = "validateKey"
    /\ table' = validate_key_touch(table, inst[w], now).table
    /\ pc' = [pc EXCEPT ![w] = "idle"]
    /\ self_admin' = [self_admin EXCEPT ![w] = NoAdmin]
    /\ inst' = [inst EXCEPT ![w] = NoInst]
    /\ UNCHANGED <<nextId, issued, deleted>>

Next ==
  \/ CreateKey
  \/ ListKeys
  \/ RevokeGet
  \/ RevokeSave
  \/ DeleteGet
  \/ DeleteDel
  \/ GetMCPConfig
  \/ ValidateGet
  \/ ValidateTouch

Spec == Init /\ [][Next]_vars

(* ------------------------------ claims --------------------------------- *)
OwnedBy(admin) == {i \in DOMAIN table : table[i].admin = admin}
HashStored(h) == {i \in DOMAIN table : table[i].key_hash = h}

\* the digest separates every two texts the model hashes
DigestInjective ==
  \A s1, s2 \in Presented : hash_key(s1) = hash_key(s2) => s1 = s2

TypeOK ==
  /\ DOMAIN table \subseteq 1..(nextId - 1)
  /\ DOMAIN issued = 1..(nextId - 1)
  /\ deleted \subseteq DOMAIN issued
  /\ \A w \in Workers : pc[w] \in {"idle", "revokeKey", "deleteKey", "validateKey"}
  /\ \A w \in Workers : pc[w] = "idle" <=> inst[w] = NoInst

C2_CreateThenValidate ==
  \A admin \in Admins, data_name \in NameInputs, token \in Tokens, now \in Times :
    LET r == createKey(table, nextId, admin, data_name, token, now)
    IN r.resp.status = 1 =>
         LET g == validate_key_get(r.table, r.resp.key)
         IN /\ g.found
            /\ \A later \in Times :
                 LET v == validate_key_touch(r.table, g.api_key, later).resp
                 IN /\ v.result = "match"
                    /\ v.api_key.id = r.resp.id
                    /\ v.api_key.admin = admin
                    /\ validateKey(v) = admin

\* the key created last has been validated
C2_Witness ==
  /\ nextId > 1
  /\ nextId - 1 \in DOMAIN table
  /\ table[nextId - 1].last_used # Null
  /\ \E token \in Tokens :
       createKey(table, nextId, "B", Absent, token, 1).resp.status = 1

\* C3: for a key owned by another admin, revokeKey, deleteKey and getMCPConfig
\* answer status 0 'API key not found', exactly as they do when no row has
\* that id, and go no further: no handler ever holds, to save or to delete,
\* an instance of a key that is not its own admin's.
C3_ForeignKeyNotFound ==
  /\ \A admin \in Admins, k \in DOMAIN table :
       table[k].admin # admin =>
         /\ revokeKey_get(table, admin, k) = [found |-> FALSE, resp |-> NotFound]
         /\ deleteKey_get(table, admin, k) = [found |-> FALSE, resp |-> NotFound]
         /\ revokeKey_get(table, admin, k) = revokeKey_get(delete(table, k), admin, k)
         /\ deleteKey_get(table, admin, k) = deleteKey_get(delete(table, k), admin, k)
         /\ \A host \in HostInputs :
              /\ getMCPConfig(table, admin, k, host) = ajaxPre(0, "API key not found")
              /\ getMCPConfig(table, admin, k, host)
                   = getMCPConfig(delete(table, k), admin, k, host)
  /\ \A w \in Workers :
       pc[w] \in {"revokeKey", "deleteKey"} => inst[w].admin = self_admin[w]

\* both admins own a key, and one of them is in the middle of a toggle
C3_Witness ==
  /\ OwnedBy("A") # {}
  /\ OwnedBy("B") # {}
  /\ \E w \in Workers : pc[w] = "revokeKey"

SummaryFields == {"id", "name", "key_preview", "created_at", "last_used", "is_active"}

\* C4: listKeys of an admin returns one summary for each row the admin owns
\* and none for any other row; a summary has the fields id, name, key_preview
\* (the stored prefix and '...'), created_at, last_used and is_active alone,
\* and neither the stored hash nor the raw key is in it.
C4_ListOwnOnly ==
  \A admin \in Admins :
    \A order \in Orderings(table, objects_filter(table, admin)) :
      LET r == listKeys(table, order)
      IN /\ r.status = 1
         /\ Len(r.keys) = Cardinality(OwnedBy(admin))
         /\ {r.keys[i].id : i \in DOMAIN r.keys} = OwnedBy(admin)
         /\ \A i \in DOMAIN r.keys :
              LET e == r.keys[i]
              IN /\ DOMAIN e = SummaryFields
                 /\ e.key_preview = table[e.id].key_prefix \o Ellipsis
                 /\ e.name = table[e.id].name
                 /\ e.is_active = table[e.id].is_active
                 /\ \A text \in {e.name, e.key_preview} :
                      /\ ~Contains(text, table[e.id].key_hash)
                      /\ ~Contains(text, issued[e.id])

\* both admins own a key
C4_Witness ==
  /\ OwnedBy("A") # {}
  /\ OwnedBy("B") # {}

\* the texts a createKey response carries beside the raw key itself
CreateTexts(resp) == IF resp.status = 1 THEN {resp.name, resp.key_prefix} ELSE {}
ListTexts(resp) ==
  UNION {{resp.keys[i].name, resp.keys[i].key_preview} : i \in DOMAIN resp.keys}
ConfigTexts(resp) ==
  IF resp.status = 1
  THEN {resp.vscode_config.env.CYBERPANEL_HOST, resp.vscode_config.env.CYBERPANEL_API_KEY,
        resp.claude_config.env.CYBERPANEL_HOST, resp.claude_config.env.CYBERPANEL_API_KEY}
  ELSE {}

\* C5: of the raw key of a stored record, the table holds the digest and the
\* 12-character prefix alone: no column of any row contains it, and neither
\* does any response of listKeys, revokeKey, deleteKey or getMCPConfig, nor
\* the response of a later createKey.
C5_RawKeyNotKept ==
  \A id \in DOMAIN table :
    LET raw == issued[id]
    IN /\ table[id].key_hash = hash_key(raw)
       /\ table[id].key_prefix = SubSeq(raw, 1, PrefixLen)
       /\ Len(raw) > PrefixLen
       /\ \A j \in DOMAIN table :
            \A text \in {table[j].key_hash, table[j].key_prefix, table[j].name} :
              ~Contains(text, raw)
       /\ \A admin \in Admins :
            /\ \A order \in Orderings(table, objects_filter(table, admin)) :
                 \A text \in ListTexts(listKeys(table, order)) : ~Contains(text, raw)
            /\ \A k \in KeyIDs :
                 /\ \A host \in HostInputs :
                      \A text \in ConfigTexts(getMCPConfig(table, admin, k, host)) :
                        ~Contains(text, raw)
                 /\ LET g == revokeKey_get(table, admin, k)
                    IN g.found =>
                         \A now \in Times :
                           DOMAIN revokeKey_save(table, g.api_key, now).resp
                             = {"status", "is_active"}
                 /\ LET g == deleteKey_get(table, admin, k)
                    IN g.found =>
                         DOMAIN deleteKey_delete(table, g.api_key).resp = {"status"}
            /\ \A data_name \in NameInputs, token \in Tokens, now \in Times :
                 LET r == createKey(table, nextId, admin, data_name, token, now).resp
                 IN /\ r.status = 1 => r.key # raw
                    /\ \A text \in CreateTexts(r) : ~Contains(text, raw)

\* two keys are stored whose raw keys share their 12-character prefix
C5_Witness ==
  \E i, j \in DOMAIN table :
    /\ i # j
    /\ issued[i] # issued[j]
    /\ table[i].key_prefix = table[j].key_prefix

\* C6: once deleteKey has answered status 1 for an id, revokeKey, deleteKey
\* and getMCPConfig find no key under that id, whoever asks and whatever has
\* happened since: each answers status 0 'API key not found'.
C6_DeletedStaysNotFound ==
  \A k \in deleted, admin \in Admins :
    /\ revokeKey_get(table, admin, k) = [found |-> FALSE, resp |-> NotFound]
    /\ deleteKey_get(table, admin, k) = [found |-> FALSE, resp |-> NotFound]
    /\ \A host \in HostInputs : getMCPConfig(table, admin, k, host) = NotFound

\* C7: a validate that has found an active record with the presented digest
\* returns that record, whatever becomes of its last_used write: it never
\* raises.
C7_ValidateNeverRaises ==
  \A w \in Workers :
    pc[w] = "validateKey" =>
      \A now \in Times :
        LET v == validate_key_touch(table, inst[w], now).resp
        IN v.result = "match" /\ v.api_key.id = inst[w].id

\* C8: a createKey that answers status 0 leaves the table as it was; one that
\* changes the table adds the single row whose hash is the digest of the raw
\* key in its status 1 response; so every stored row's hash is the digest of
\* a raw key that a createKey response carried.
C8_CreateAllOrNothing ==
  /\ \A admin \in Admins, data_name \in NameInputs,
        token \in Tokens \cup {EntropyFailure}, now \in Times :
       LET r == createKey(table, nextId, admin, data_name, token, now)
       IN /\ r.resp.status \in {0, 1}
          /\ r.resp.status = 0 => r.table = table
          /\ r.table # table =>
               /\ r.resp.status = 1
               /\ DOMAIN r.table = DOMAIN table \cup {r.resp.id}
               /\ r.resp.id \notin DOMAIN table
               /\ \A i \in DOMAIN table : r.table[i] = table[i]
               /\ r.table[r.resp.id].key_hash = hash_key(r.resp.key)
               /\ r.table[r.resp.id].admin = admin
          /\ r.resp.status = 1 => r.table # table
  /\ \A i \in DOMAIN table :
       i \in DOMAIN issued /\ table[i].key_hash = hash_key(issued[i])

\* a key is stored, and a createKey drawing its token again would be refused
C8_Witness ==
  /\ table # <<>>
  /\ nextId <= MaxKeys
  /\ \E token \in Tokens :
       createKey(table, nextId, "A", CIToken, token, 1).resp.status = 0
  /\ \E token \in Tokens :
       createKey(table, nextId, "A", CIToken, token, 1).resp.status = 1

\* the toggle of key k by its admin, run from the table t with nothing in between
ToggleOnce(t, k, now) ==
  revokeKey_save(t, revokeKey_get(t, t[k].admin, k).api_key, now)

\* C9, for calls that do not overlap: two toggles of a stored key by its
\* admin, the second reading the row after the first has saved it, both
\* answer status 1, return opposite states and leave is_active (and the whole
\* row) as it was before the first.
C9_ToggleTwiceInTurn ==
  \A k \in DOMAIN table, t1, t2 \in Times :
    LET first == ToggleOnce(table, k, t1)
        second == ToggleOnce(first.table, k, t2)
    IN /\ first.resp.status = 1 /\ second.resp.status = 1
       /\ first.resp.is_active = ~table[k].is_active
       /\ first.table[k].is_active = first.resp.is_active
       /\ second.resp.is_active = ~first.resp.is_active
       /\ second.table[k].is_active = table[k].is_active
       /\ second.table = table

\* a toggle has run to its end and left a stored key switched off, and no
\* request is in progress
C9_Witness ==
  /\ \E k \in DOMAIN table : ~table[k].is_active
  /\ \A w \in Workers : pc[w] = "idle"

\* C9 as claimed, overlapping calls included: whenever two toggles of the same
\* stored key are both between their read and their save, their two saves
\* return opposite states and leave is_active as the first of them read it.
C9_ToggleTwice ==
  /\ C9_ToggleTwiceInTurn
  /\ \A w1, w2 \in Workers :
       (w1 # w2 /\ pc[w1] = "revokeKey" /\ pc[w2] = "revokeKey"
          /\ inst[w1].id = inst[w2].id /\ inst[w1].id \in DOMAIN table) =>
         \A t1, t2 \in Times :
           LET first == revokeKey_save(table, inst[w1], t1)
               second == revokeKey_save(first.table, inst[w2], t2)
           IN (first.resp.status = 1 /\ second.resp.status = 1) =>
                /\ second.resp.is_active = ~first.resp.is_active
                /\ second.table[inst[w1].id].is_active = inst[w1].is_active

\* C10: the save of a toggle changes is_active of the row it targets and
\* nothing else: the row's admin, hash, prefix, name, created_at and last_used
\* and every other row stay as they are in the table, so no last_used a
\* validate has written is reverted by it.
C10_ToggleWritesIsActiveOnly ==
  \A w \in Workers :
    (pc[w] = "revokeKey" /\ inst[w].id \in DOMAIN table) =>
      \A now \in Times :
        LET after == revokeKey_save(table, inst[w], now).table
            k == inst[w].id
        IN /\ DOMAIN after = DOMAIN table
           /\ \A j \in DOMAIN table \ {k} : after[j] = table[j]
           /\ after[k] = [table[k] EXCEPT !.is_active = after[k].is_active]
           /\ after[k].last_used = table[k].last_used

====
